---- MODULE Spec2Model ----
(***************************************************************************)
(* Model of the Go student service (main.go): the in-memory StudentStore   *)
(* (a map and a nextID counter behind a sync.RWMutex) and the six HTTP     *)
(* handlers of App.  Each worker models a goroutine of net/http serving    *)
(* one request at a time.  A handler is a sequence of steps named after    *)
(* the first source line they execute (CreateStudent_L94 is line 94).      *)
(* Statements that touch only the handler's locals or the response are     *)
(* joined to the neighbouring step on the lock: parsing, decoding and      *)
(* validation to the handler's entry, the first statement under the lock   *)
(* to its acquisition, the writing of the response to its release.  Every  *)
(* write to the map or to nextID is a step of its own, taken while the     *)
(* lock acquired in an earlier step is held, and so is every iteration of  *)
(* GetAllStudents' range loop.                                             *)
(*                                                                         *)
(* resp[p] holds the response worker p wrote in the step just taken, and   *)
(* nothing after any other step: every response is visible in exactly the  *)
(* state that follows the handler's return.                                *)
(*                                                                         *)
(* Spec is the service.  FairSpec is the service with its goroutines       *)
(* scheduled fairly.  ValidateSpec is one call of Student.Validate, and    *)
(* GenSpec one call of OllamaClient.GenerateStudentSummary, the client of   *)
(* the text-generation service that no handler calls; each of the two runs *)
(* beside a store nobody else uses.                                        *)
(***************************************************************************)
EXTENDS Integers, Sequences, FiniteSets, TLC

\* ------------------------------------------------------------------ bounds
NumWorkers == 2        \* goroutines serving requests concurrently
MaxRequests == 3       \* requests accepted in one behaviour

Workers == 1..NumWorkers

\* --------------------------------------------------------------- constants
MaxAge == 150          \* main.go:58
InitialNextID == 1     \* main.go:36

StatusOK == 200
StatusCreated == 201
StatusNoContent == 204
StatusBadRequest == 400
StatusNotFound == 404

\* ------------------------------------------------------------------- data
\* type Student struct (main.go:17-22)
Student(i, n, a, e) == [ID |-> i, Name |-> n, Age |-> a, Email |-> e]

\* the zero value of Student: `var student Student`
ZeroStudent == Student(0, "", 0, "")

\* type ValidationError struct (main.go:42-45)
ValidationError(f, m) == [Field |-> f, Message |-> m]

\* Validate with the upper age limit exclusive (>= instead of >)
Validate_AgeExclusive(s) ==
    LET e1 == IF s.Name = ""
              THEN <<ValidationError("name", "Name is required")>> ELSE <<>>
        e2 == IF s.Age < 0 \/ s.Age >= MaxAge
              THEN e1 \o <<ValidationError("age", "Age must be between 0 and 150")>>
              ELSE e1
        e3 == IF s.Email = ""
              THEN e2 \o <<ValidationError("email", "Email is required")>> ELSE e2
    IN e3

\* func (s Student) Validate() []ValidationError (main.go:48-73)
Validate(s) ==
    LET e1 == IF s.Name = ""
              THEN <<ValidationError("name", "Name is required")>> ELSE <<>>
        e2 == IF s.Age < 0 \/ s.Age > MaxAge
              THEN e1 \o <<ValidationError("age", "Age must be between 0 and 150")>>
              ELSE e1
        e3 == IF s.Email = ""
              THEN e2 \o <<ValidationError("email", "Email is required")>> ELSE e2
    IN e3

\* ------------------------------------------------------- request decoding
\* A path segment is a sequence of one-character strings.
Digits == {"0", "1", "2", "3", "4", "5", "6", "7", "8", "9"}

DigitVal(c) ==
    CASE c = "0" -> 0 [] c = "1" -> 1 [] c = "2" -> 2 [] c = "3" -> 3
      [] c = "4" -> 4 [] c = "5" -> 5 [] c = "6" -> 6 [] c = "7" -> 7
      [] c = "8" -> 8 [] c = "9" -> 9

RECURSIVE DecVal(_)
DecVal(ds) ==
    IF ds = <<>> THEN 0
    ELSE 10 * DecVal(SubSeq(ds, 1, Len(ds) - 1)) + DigitVal(ds[Len(ds)])

\* strconv.Atoi as the handlers use it (main.go:114,133,166,186): an optional
\* sign, then one or more decimal digits; anything else is an error and the
\* value is 0.
Atoi(s) ==
    LET signed == s # <<>> /\ s[1] \in {"+", "-"}
        ds == IF signed THEN Tail(s) ELSE s
    IN IF ds = <<>> \/ \E i \in 1..Len(ds) : ds[i] \notin Digits
       THEN [val |-> 0, err |-> TRUE]
       ELSE [val |-> IF signed /\ s[1] = "-" THEN 0 - DecVal(ds) ELSE DecVal(ds),
             err |-> FALSE]

\* A JSON value of a request body: a number or a string.
JNum(n) == [t |-> "num", n |-> n, s |-> ""]
JStr(s) == [t |-> "str", n |-> 0, s |-> s]

\* A request body: malformed text, or a JSON object given as its
\* (key, value) members.
BadBody == [wellformed |-> FALSE, members |-> {}]
Body(ms) == [wellformed |-> TRUE, members |-> ms]

HasKey(b, k) == \E m \in b.members : m[1] = k
ValueOf(b, k) == (CHOOSE m \in b.members : m[1] = k)[2]

\* json.NewDecoder(r.Body).Decode(&student) (main.go:81,140): a key that is
\* absent leaves the field's zero value, a value of the wrong JSON type or a
\* malformed body is an error.
Decode(b) ==
    LET typeOK(k, t) == HasKey(b, k) => ValueOf(b, k).t = t
        num(k) == IF HasKey(b, k) THEN ValueOf(b, k).n ELSE 0
        str(k) == IF HasKey(b, k) THEN ValueOf(b, k).s ELSE ""
    IN IF b.wellformed /\ typeOK("id", "num") /\ typeOK("name", "str")
          /\ typeOK("age", "num") /\ typeOK("email", "str")
       THEN [student |-> Student(num("id"), str("name"), num("age"), str("email")),
             err |-> FALSE]
       ELSE [student |-> ZeroStudent, err |-> TRUE]

\* the summary with student.ID passed for the %d verb
SummaryOf_IdForAge(s) ==
    "Student " \o s.Name \o " is " \o ToString(s.ID)
        \o " years old with email " \o s.Email \o "."

\* fmt.Sprintf("Student %s is %d years old with email %s.", ...) (main.go:201)
SummaryOf(s) ==
    "Student " \o s.Name \o " is " \o ToString(s.Age)
        \o " years old with email " \o s.Email \o "."

\* http.Error(w, msg, code): a plain-text body.  json.NewEncoder(w).Encode(v):
\* a JSON body, here kept as the value encoded.
NoBody == [kind |-> "none", text |-> "", student |-> ZeroStudent,
           students |-> <<>>, errors |-> <<>>]
\* A response, with the request it answers: the handler and the parsed {id}.
Response(handler, i, code, body) ==
    [op |-> handler, id |-> i, status |-> code, body |-> body]
NoResponse == Response("none", 0, 0, NoBody)
TextBody(msg) == [NoBody EXCEPT !.kind = "text", !.text = msg]
StudentBody(s) == [NoBody EXCEPT !.kind = "student", !.student = s]
StudentsBody(ss) == [NoBody EXCEPT !.kind = "students", !.students = ss]
ErrorsBody(es) == [NoBody EXCEPT !.kind = "errors", !.errors = es]
SummaryBody(txt) == [NoBody EXCEPT !.kind = "summary", !.text = txt]

\* ----------------------------------------------------------------- inputs
\* Request bodies a client may send (r.Body, main.go:81,140).
Bodies ==
    { Body({<<"name", JStr("Ann")>>, <<"age", JNum(20)>>,
            <<"email", JStr("a@b.com")>>}),
      Body({<<"id", JNum(2)>>, <<"name", JStr("X")>>, <<"age", JNum(5)>>,
            <<"email", JStr("x@x")>>}),
      Body({<<"name", JStr("Old")>>, <<"age", JNum(151)>>}),
      Body({<<"name", JStr("Ann")>>, <<"age", JStr("20")>>,
            <<"email", JStr("a@b.com")>>}),
      BadBody }

\* Path segments a client may send as {id} (mux.Vars(r)["id"], main.go:114).
PathIds ==
    { <<"1">>, <<"+", "1">>, <<"0", "2">>, <<"1", "x">>, <<"-">> }

\* What the handlers get from their inputs: strconv.Atoi of the path
\* segment (main.go:114,133,166,186) and Decode of the body (main.go:81,140).
ParsedIds == { Atoi(s) : s \in PathIds }
DecodedBodies == { Decode(b) : b \in Bodies }

\* ------------------------------------------------------------------ state
VARIABLES
    students,   \* StudentStore.students: map[int]Student
    nextID,     \* StudentStore.nextID
    mu,         \* the embedded sync.RWMutex: its writer and its readers
    pc,         \* per worker: "idle" or the line it executes next
    op,         \* per worker: the handler serving the current request
    id,         \* per worker: the handler's local id
    student,    \* per worker: the handler's local student
    exists,     \* per worker: the handler's local exists
    list,       \* per worker: GetAllStudents' local slice students
    todo,       \* per worker: keys GetAllStudents' range loop has yet to visit
    resp,       \* per worker: the response its last step wrote, if that step wrote one
    started,    \* requests accepted so far
    issued,     \* history: the ids Create assigned, in assignment order
    created,    \* history: the bag of ids that 201 responses carried
    deleted,    \* history: the ids whose Delete answered 204
    updated,    \* history, per id: the body of the Update that wrote it last
    wrote,      \* history, per worker: its request changed the map or nextID
    present,    \* history, per worker: its id was in the map during the request
    afterDel,   \* history, per worker: its request began after a 204 for its id
    atLock,     \* history, per worker: the store as it was when it took the lock
    vpc,        \* Validate harness: "call" or "return"
    vs,         \* Validate harness: the caller's Student
    vrecv,      \* Validate harness: the receiver s (a copy of the caller's)
    verrs,      \* Validate harness: the slice returned
    gpc,        \* GenerateStudentSummary: "off", the line it executes next, or "return"
    gstudent,   \* GenerateStudentSummary: the parameter student
    gprompt,    \* GenerateStudentSummary: the local prompt
    gjson,      \* GenerateStudentSummary: what json.Marshal encoded (jsonBody)
    gposts,     \* the requests http.Post has sent, in order
    gresp,      \* GenerateStudentSummary: the *http.Response http.Post returned
    gret        \* GenerateStudentSummary: the (string, error) it returned

store == <<students, nextID>>
locals == <<pc, op, id, student, exists, list, todo, resp>>
history == <<issued, created, deleted, updated, wrote, present, afterDel, atLock>>
harness == <<vpc, vs, vrecv, verrs>>
client == <<gpc, gstudent, gprompt, gjson, gposts, gresp, gret>>
vars == <<students, nextID, mu, pc, op, id, student, exists, list, todo, resp,
          started, issued, created, deleted, updated, wrote, present, afterDel,
          atLock,          vpc, vs, vrecv, verrs,
          gpc, gstudent, gprompt, gjson, gposts, gresp, gret>>

\* ------------------------------------------------------------ sync.RWMutex
NoWorker == 0

\* sync.RWMutex with every goroutine on a copy of its own (the store passed
\* by value): no call ever blocks and none excludes another
RWMutex_Copied(p, method) == mu' = mu

\* sync.RWMutex whose Lock waits for the writer only, not for the readers
RWMutex_WriterIgnoresReaders(p, method) ==
    CASE method = "Lock" ->
           /\ mu.writer = NoWorker
           /\ mu' = [mu EXCEPT !.writer = p]
      [] method = "Unlock" ->
           /\ mu.writer = p
           /\ mu' = [mu EXCEPT !.writer = NoWorker]
      [] method = "RLock" ->
           /\ mu.writer = NoWorker
           /\ mu' = [mu EXCEPT !.readers = @ \cup {p}]
      [] method = "RUnlock" ->
           /\ p \in mu.readers
           /\ mu' = [mu EXCEPT !.readers = @ \ {p}]

\* The embedded sync.RWMutex (main.go:26) as goroutine p calls it.  Lock
\* blocks until no writer and no reader holds the lock, RLock while a writer
\* holds it; Unlock and RUnlock release what p holds.
RWMutex(p, method) ==
    CASE method = "Lock" ->
           /\ mu.writer = NoWorker
           /\ mu.readers = {}
           /\ mu' = [mu EXCEPT !.writer = p]
      [] method = "Unlock" ->
           /\ mu.writer = p
           /\ mu' = [mu EXCEPT !.writer = NoWorker]
      [] method = "RLock" ->
           /\ mu.writer = NoWorker
           /\ mu' = [mu EXCEPT !.readers = @ \cup {p}]
      [] method = "RUnlock" ->
           /\ p \in mu.readers
           /\ mu' = [mu EXCEPT !.readers = @ \ {p}]

Lock(p) == RWMutex(p, "Lock")
Unlock(p) == RWMutex(p, "Unlock")
RLock(p) == RWMutex(p, "RLock")
RUnlock(p) == RWMutex(p, "RUnlock")

\* ---------------------------------------------------------------- helpers
\* a handler writes its response and returns: the goroutine ends, its locals
\* are gone and the worker is free for the next request
Reply(p, handler, i, code, body) ==
    /\ resp' = [q \in Workers |->
                  IF q = p THEN Response(handler, i, code, body) ELSE NoResponse]
    /\ pc' = [pc EXCEPT ![p] = "idle"]
    /\ op' = [op EXCEPT ![p] = "none"]
    /\ id' = [id EXCEPT ![p] = 0]
    /\ student' = [student EXCEPT ![p] = ZeroStudent]
    /\ exists' = [exists EXCEPT ![p] = FALSE]
    /\ list' = [list EXCEPT ![p] = <<>>]
    /\ todo' = [todo EXCEPT ![p] = {}]

\* a step that writes no response
Silent == resp' = [q \in Workers |-> NoResponse]

Goto(p, line) == pc' = [pc EXCEPT ![p] = line]

\* the handler starts: it runs on to the given line without answering
Enter(p, handler, line) ==
    /\ pc' = [pc EXCEPT ![p] = line]
    /\ op' = [op EXCEPT ![p] = handler]

\* the router hands a request to a handler (main.go:228-233)
Accept(p) ==
    /\ pc[p] = "idle"
    /\ started < MaxRequests
    /\ started' = started + 1

\* map insert / overwrite and delete
MapSet(m, k, v) == [x \in DOMAIN m \cup {k} |-> IF x = k THEN v ELSE m[x]]
MapDelete(m, k) == [x \in DOMAIN m \ {k} |-> m[x]]

\* no call of GenerateStudentSummary is made: no handler of main.go calls it
NoHTTPResponse == [received |-> FALSE, status |-> 0, body |-> <<>>]
NoReturn == [str |-> "", err |-> "none"]
ClientIdle ==
    /\ gpc = "off"
    /\ gstudent = ZeroStudent
    /\ gprompt = ""
    /\ gjson = [encoded |-> FALSE, model |-> "", prompt |-> ""]
    /\ gposts = <<>>
    /\ gresp = NoHTTPResponse
    /\ gret = NoReturn

\* a history entry that records no store
NoStore == [students |-> << >>, nextID |-> 0]

\* NewStudentStore with nextID left out of the literal: Go's zero value
NewStudentStore_ZeroNextID ==
    /\ students = << >>
    /\ nextID = 0
    /\ mu = [writer |-> NoWorker, readers |-> {}]

\* func NewStudentStore (main.go:33-39): an empty map, nextID 1, the mutex
\* unlocked
NewStudentStore ==
    /\ students = << >>
    /\ nextID = InitialNextID
    /\ mu = [writer |-> NoWorker, readers |-> {}]

\* main (main.go:222-224): the store is built, no request is being served
Init ==
    /\ NewStudentStore
    /\ pc = [p \in Workers |-> "idle"]
    /\ op = [p \in Workers |-> "none"]
    /\ id = [p \in Workers |-> 0]
    /\ student = [p \in Workers |-> ZeroStudent]
    /\ exists = [p \in Workers |-> FALSE]
    /\ list = [p \in Workers |-> <<>>]
    /\ todo = [p \in Workers |-> {}]
    /\ resp = [p \in Workers |-> NoResponse]
    /\ started = 0
    /\ issued = <<>>
    /\ created = << >>
    /\ deleted = {}
    /\ updated = << >>
    /\ wrote = [p \in Workers |-> FALSE]
    /\ present = [p \in Workers |-> FALSE]
    /\ afterDel = [p \in Workers |-> FALSE]
    /\ atLock = [p \in Workers |-> NoStore]
    /\ vpc = "off"
    /\ vs = ZeroStudent
    /\ vrecv = ZeroStudent
    /\ verrs = <<>>
    /\ ClientIdle

\* ------------------------------------------------- App.CreateStudent
\* CreateStudent taking the next id before it validates: a body that fails
\* validation has already advanced nextID
CreateStudent_L80_Consume(p) ==
    /\ Accept(p)
    /\ \E d \in DecodedBodies :
         IF d.err
         THEN /\ Reply(p, "Create", 0, StatusBadRequest, TextBody("Invalid request body"))
              /\ UNCHANGED nextID
         ELSE IF Len(Validate(d.student)) > 0
         THEN /\ Reply(p, "Create", 0, StatusBadRequest, ErrorsBody(Validate(d.student)))
              /\ nextID' = nextID + 1
         ELSE /\ Enter(p, "Create", "L92")
              /\ student' = [student EXCEPT ![p] = d.student]
              /\ Silent
              /\ UNCHANGED <<nextID, id, exists, list, todo>>
    /\ UNCHANGED <<students, mu>>

\* main.go:80-90: decode the body, validate, answer 400 on either failure
CreateStudent_L80(p) ==
    /\ Accept(p)
    /\ \E d \in DecodedBodies :
         IF d.err
         THEN Reply(p, "Create", 0, StatusBadRequest, TextBody("Invalid request body"))
         ELSE IF Len(Validate(d.student)) > 0
         THEN Reply(p, "Create", 0, StatusBadRequest, ErrorsBody(Validate(d.student)))
         ELSE /\ Enter(p, "Create", "L92")
              /\ student' = [student EXCEPT ![p] = d.student]
              /\ Silent
              /\ UNCHANGED <<id, exists, list, todo>>
    /\ UNCHANGED <<students, nextID, mu>>

\* CreateStudent taking the id from the size of the map
CreateStudent_L92_IdFromLen(p) ==
    /\ pc[p] = "L92"
    /\ Lock(p)
    /\ student' = [student EXCEPT ![p].ID = Cardinality(DOMAIN students) + 1]
    /\ Goto(p, "L94")
    /\ Silent
    /\ UNCHANGED <<students, nextID, op, id, exists, list, todo, started>>

\* CreateStudent without line 93: the student keeps the id of the body
CreateStudent_L92_KeepsBodyID(p) ==
    /\ pc[p] = "L92"
    /\ Lock(p)
    /\ Goto(p, "L94")
    /\ Silent
    /\ UNCHANGED <<students, nextID, op, id, student, exists, list, todo, started>>

\* main.go:92-93: app.store.Lock(); student.ID = app.store.nextID
CreateStudent_L92(p) ==
    /\ pc[p] = "L92"
    /\ Lock(p)
    /\ student' = [student EXCEPT ![p].ID = nextID]
    /\ Goto(p, "L94")
    /\ Silent
    /\ UNCHANGED <<students, nextID, op, id, exists, list, todo, started>>

\* main.go:94: app.store.nextID++
CreateStudent_L94(p) ==
    /\ pc[p] = "L94"
    /\ nextID' = nextID + 1
    /\ Goto(p, "L95")
    /\ Silent
    /\ UNCHANGED <<students, mu, op, id, student, exists, list, todo, started>>

\* main.go:95: app.store.students[student.ID] = student
CreateStudent_L95(p) ==
    /\ pc[p] = "L95"
    /\ students' = MapSet(students, student[p].ID, student[p])
    /\ Goto(p, "L96")
    /\ Silent
    /\ UNCHANGED <<nextID, mu, op, id, student, exists, list, todo, started>>

\* main.go:96-99: app.store.Unlock(), then 201 and the student as stored
CreateStudent_L96(p) ==
    /\ pc[p] = "L96"
    /\ Unlock(p)
    /\ Reply(p, "Create", 0, StatusCreated, StudentBody(student[p]))
    /\ UNCHANGED <<students, nextID, started>>

\* ------------------------------------------------- App.GetAllStudents
\* main.go:102: the handler takes no input
GetAllStudents_L102(p) ==
    /\ Accept(p)
    /\ Enter(p, "List", "L103")
    /\ Silent
    /\ UNCHANGED <<students, nextID, mu, id, student, exists, list, todo>>

\* main.go:103-104: app.store.RLock();
\* students := make([]Student, 0, len(app.store.students)), and the range
\* loop starts over the map's keys
GetAllStudents_L103(p) ==
    /\ pc[p] = "L103"
    /\ RLock(p)
    /\ list' = [list EXCEPT ![p] = <<>>]
    /\ todo' = [todo EXCEPT ![p] = DOMAIN students]
    /\ Goto(p, "L105")
    /\ Silent
    /\ UNCHANGED <<students, nextID, op, id, student, exists, started>>

\* main.go:105-107: one iteration of the range loop, in an order Go leaves
\* unspecified; the loop ends when no key is left
GetAllStudents_L105(p) ==
    /\ pc[p] = "L105"
    /\ LET left == todo[p] \cap DOMAIN students IN
       IF left = {}
       THEN /\ Goto(p, "L108")
            /\ todo' = [todo EXCEPT ![p] = {}]
            /\ UNCHANGED list
       ELSE \E k \in left :
            /\ list' = [list EXCEPT ![p] = Append(@, students[k])]
            /\ todo' = [todo EXCEPT ![p] = left \ {k}]
            /\ UNCHANGED pc
    /\ Silent
    /\ UNCHANGED <<students, nextID, mu, op, id, student, exists, started>>

\* main.go:108-110: app.store.RUnlock(), then the slice as a JSON array
GetAllStudents_L108(p) ==
    /\ pc[p] = "L108"
    /\ RUnlock(p)
    /\ Reply(p, "List", 0, StatusOK, StudentsBody(list[p]))
    /\ UNCHANGED <<students, nextID, started>>

\* ------------------------------------------------- App.GetStudent
\* main.go:114-118: parse the id, answer 400 when it is no integer
GetStudent_L114(p) ==
    /\ Accept(p)
    /\ \E a \in ParsedIds :
         IF a.err
         THEN Reply(p, "Get", a.val, StatusBadRequest, TextBody("Invalid ID"))
         ELSE /\ Enter(p, "Get", "L120")
              /\ id' = [id EXCEPT ![p] = a.val]
              /\ Silent
              /\ UNCHANGED <<student, exists, list, todo>>
    /\ UNCHANGED <<students, nextID, mu>>

\* main.go:120-121: app.store.RLock();
\* student, exists := app.store.students[id]
GetStudent_L120(p) ==
    /\ pc[p] = "L120"
    /\ RLock(p)
    /\ exists' = [exists EXCEPT ![p] = id[p] \in DOMAIN students]
    /\ student' = [student EXCEPT ![p] =
                     IF id[p] \in DOMAIN students THEN students[id[p]] ELSE ZeroStudent]
    /\ Goto(p, "L122")
    /\ Silent
    /\ UNCHANGED <<students, nextID, op, id, list, todo, started>>

\* GetStudent without the exists test: the zero Student is sent for an
\* absent id
GetStudent_L122_NoCheck(p) ==
    /\ pc[p] = "L122"
    /\ RUnlock(p)
    /\ Reply(p, "Get", id[p], StatusOK, StudentBody(student[p]))
    /\ UNCHANGED <<students, nextID, started>>

\* main.go:122-129: app.store.RUnlock(), then 404 when the id was absent, else the student
GetStudent_L122(p) ==
    /\ pc[p] = "L122"
    /\ RUnlock(p)
    /\ IF ~exists[p]
       THEN Reply(p, "Get", id[p], StatusNotFound, TextBody("Student not found"))
       ELSE Reply(p, "Get", id[p], StatusOK, StudentBody(student[p]))
    /\ UNCHANGED <<students, nextID, started>>

\* ------------------------------------------------- App.UpdateStudent
\* UpdateStudent without the call of Validate
UpdateStudent_L133_NoValidate(p) ==
    /\ Accept(p)
    /\ \E a \in ParsedIds :
         IF a.err
         THEN Reply(p, "Update", a.val, StatusBadRequest, TextBody("Invalid ID"))
         ELSE \E d \in DecodedBodies :
              IF d.err
              THEN Reply(p, "Update", a.val, StatusBadRequest,
                         TextBody("Invalid request body"))
              ELSE /\ Enter(p, "Update", "L151")
                   /\ id' = [id EXCEPT ![p] = a.val]
                   /\ student' = [student EXCEPT ![p] = d.student]
                   /\ Silent
                   /\ UNCHANGED <<exists, list, todo>>
    /\ UNCHANGED <<students, nextID, mu>>

\* main.go:133-149: parse the id, decode the body, validate; 400 on any failure
UpdateStudent_L133(p) ==
    /\ Accept(p)
    /\ \E a \in ParsedIds :
         IF a.err
         THEN Reply(p, "Update", a.val, StatusBadRequest, TextBody("Invalid ID"))
         ELSE \E d \in DecodedBodies :
              IF d.err
              THEN Reply(p, "Update", a.val, StatusBadRequest,
                         TextBody("Invalid request body"))
              ELSE IF Len(Validate(d.student)) > 0
              THEN Reply(p, "Update", a.val, StatusBadRequest,
                         ErrorsBody(Validate(d.student)))
              ELSE /\ Enter(p, "Update", "L151")
                   /\ id' = [id EXCEPT ![p] = a.val]
                   /\ student' = [student EXCEPT ![p] = d.student]
                   /\ Silent
                   /\ UNCHANGED <<exists, list, todo>>
    /\ UNCHANGED <<students, nextID, mu>>

\* UpdateStudent without the exists test: an absent id is inserted
UpdateStudent_L151_Upsert(p) ==
    /\ pc[p] = "L151"
    /\ Lock(p)
    /\ exists' = [exists EXCEPT ![p] = TRUE]
    /\ Goto(p, "L158")
    /\ Silent
    /\ UNCHANGED <<students, nextID, op, id, student, list, todo, started>>

\* UpdateStudent with the existence test ahead of Lock: the test runs
\* whoever holds the lock, and the write of line 159 follows it unguarded
UpdateStudent_L151_CheckBeforeLock(p) ==
    /\ pc[p] = "L151"
    /\ exists' = [exists EXCEPT ![p] = id[p] \in DOMAIN students]
    /\ Goto(p, IF id[p] \in DOMAIN students THEN "L158" ELSE "L153")
    /\ Silent
    /\ UNCHANGED <<students, nextID, mu, op, id, student, list, todo, started>>

\* UpdateStudent taking the shared lock where line 151 takes the exclusive
\* one
UpdateStudent_L151_RLock(p) ==
    /\ pc[p] = "L151"
    /\ RLock(p)
    /\ exists' = [exists EXCEPT ![p] = id[p] \in DOMAIN students]
    /\ Goto(p, IF id[p] \in DOMAIN students THEN "L158" ELSE "L153")
    /\ Silent
    /\ UNCHANGED <<students, nextID, op, id, student, list, todo, started>>

\* main.go:151-152: app.store.Lock();
\* if _, exists := app.store.students[id]; !exists
UpdateStudent_L151(p) ==
    /\ pc[p] = "L151"
    /\ Lock(p)
    /\ exists' = [exists EXCEPT ![p] = id[p] \in DOMAIN students]
    /\ Goto(p, IF id[p] \in DOMAIN students THEN "L158" ELSE "L153")
    /\ Silent
    /\ UNCHANGED <<students, nextID, op, id, student, list, todo, started>>

\* UpdateStudent returning 404 without line 153: the lock stays held
UpdateStudent_L153_NoUnlock(p) ==
    /\ pc[p] = "L153"
    /\ Reply(p, "Update", id[p], StatusNotFound, TextBody("Student not found"))
    /\ UNCHANGED <<students, nextID, mu, started>>

\* main.go:153-155: app.store.Unlock() on the not-found path, then 404
UpdateStudent_L153(p) ==
    /\ pc[p] = "L153"
    /\ Unlock(p)
    /\ Reply(p, "Update", id[p], StatusNotFound, TextBody("Student not found"))
    /\ UNCHANGED <<students, nextID, started>>

\* UpdateStudent without line 158: the record is stored with the body's id
UpdateStudent_L158_KeepsBodyID(p) ==
    /\ pc[p] = "L158"
    /\ students' = MapSet(students, id[p], student[p])
    /\ Goto(p, "L160")
    /\ Silent
    /\ UNCHANGED <<nextID, mu, op, id, student, exists, list, todo, started>>

\* main.go:158-159: student.ID = id; app.store.students[id] = student
UpdateStudent_L158(p) ==
    /\ pc[p] = "L158"
    /\ student' = [student EXCEPT ![p].ID = id[p]]
    /\ students' = MapSet(students, id[p], student'[p])
    /\ Goto(p, "L160")
    /\ Silent
    /\ UNCHANGED <<nextID, mu, op, id, exists, list, todo, started>>

\* main.go:160-162: app.store.Unlock(), then the student as stored
UpdateStudent_L160(p) ==
    /\ pc[p] = "L160"
    /\ Unlock(p)
    /\ Reply(p, "Update", id[p], StatusOK, StudentBody(student[p]))
    /\ UNCHANGED <<students, nextID, started>>

\* ------------------------------------------------- App.DeleteStudent
\* main.go:166-170: parse the id, answer 400 when it is no integer
DeleteStudent_L166(p) ==
    /\ Accept(p)
    /\ \E a \in ParsedIds :
         IF a.err
         THEN Reply(p, "Delete", a.val, StatusBadRequest, TextBody("Invalid ID"))
         ELSE /\ Enter(p, "Delete", "L172")
              /\ id' = [id EXCEPT ![p] = a.val]
              /\ Silent
              /\ UNCHANGED <<student, exists, list, todo>>
    /\ UNCHANGED <<students, nextID, mu>>

\* main.go:172-173: app.store.Lock();
\* if _, exists := app.store.students[id]; !exists
DeleteStudent_L172(p) ==
    /\ pc[p] = "L172"
    /\ Lock(p)
    /\ exists' = [exists EXCEPT ![p] = id[p] \in DOMAIN students]
    /\ Goto(p, IF id[p] \in DOMAIN students THEN "L179" ELSE "L174")
    /\ Silent
    /\ UNCHANGED <<students, nextID, op, id, student, list, todo, started>>

\* main.go:174-176: app.store.Unlock() on the not-found path, then 404
DeleteStudent_L174(p) ==
    /\ pc[p] = "L174"
    /\ Unlock(p)
    /\ Reply(p, "Delete", id[p], StatusNotFound, TextBody("Student not found"))
    /\ UNCHANGED <<students, nextID, started>>

\* DeleteStudent emptying the map where line 179 deletes one key
DeleteStudent_L179_Clears(p) ==
    /\ pc[p] = "L179"
    /\ students' = << >>
    /\ Goto(p, "L180")
    /\ Silent
    /\ UNCHANGED <<nextID, mu, op, id, student, exists, list, todo, started>>

\* DeleteStudent giving the id back: nextID is decremented with the delete
DeleteStudent_L179_ReleasesId(p) ==
    /\ pc[p] = "L179"
    /\ students' = MapDelete(students, id[p])
    /\ nextID' = nextID - 1
    /\ Goto(p, "L180")
    /\ Silent
    /\ UNCHANGED <<mu, op, id, student, exists, list, todo, started>>

\* main.go:179: delete(app.store.students, id)
DeleteStudent_L179(p) ==
    /\ pc[p] = "L179"
    /\ students' = MapDelete(students, id[p])
    /\ Goto(p, "L180")
    /\ Silent
    /\ UNCHANGED <<nextID, mu, op, id, student, exists, list, todo, started>>

\* main.go:180-182: app.store.Unlock(), then 204 with no body
DeleteStudent_L180(p) ==
    /\ pc[p] = "L180"
    /\ Unlock(p)
    /\ Reply(p, "Delete", id[p], StatusNoContent, NoBody)
    /\ UNCHANGED <<students, nextID, started>>

\* ------------------------------------------------- App.GetStudentSummary
\* main.go:186-190: parse the id, answer 400 when it is no integer
GetStudentSummary_L186(p) ==
    /\ Accept(p)
    /\ \E a \in ParsedIds :
         IF a.err
         THEN Reply(p, "Summary", a.val, StatusBadRequest, TextBody("Invalid ID"))
         ELSE /\ Enter(p, "Summary", "L192")
              /\ id' = [id EXCEPT ![p] = a.val]
              /\ Silent
              /\ UNCHANGED <<student, exists, list, todo>>
    /\ UNCHANGED <<students, nextID, mu>>

\* GetStudentSummary with a lookup that inserts the zero Student for an
\* absent id
GetStudentSummary_L192_Inserts(p) ==
    /\ pc[p] = "L192"
    /\ RLock(p)
    /\ exists' = [exists EXCEPT ![p] = id[p] \in DOMAIN students]
    /\ student' = [student EXCEPT ![p] =
                     IF id[p] \in DOMAIN students THEN students[id[p]] ELSE ZeroStudent]
    /\ students' = IF id[p] \in DOMAIN students THEN students
                   ELSE MapSet(students, id[p], ZeroStudent)
    /\ Goto(p, "L194")
    /\ Silent
    /\ UNCHANGED <<nextID, op, id, list, todo, started>>

\* main.go:192-193: app.store.RLock();
\* student, exists := app.store.students[id]
GetStudentSummary_L192(p) ==
    /\ pc[p] = "L192"
    /\ RLock(p)
    /\ exists' = [exists EXCEPT ![p] = id[p] \in DOMAIN students]
    /\ student' = [student EXCEPT ![p] =
                     IF id[p] \in DOMAIN students THEN students[id[p]] ELSE ZeroStudent]
    /\ Goto(p, "L194")
    /\ Silent
    /\ UNCHANGED <<students, nextID, op, id, list, todo, started>>

\* main.go:194-202: app.store.RUnlock(), then 404 when the id was absent, else the formatted summary
GetStudentSummary_L194(p) ==
    /\ pc[p] = "L194"
    /\ RUnlock(p)
    /\ IF ~exists[p]
       THEN Reply(p, "Summary", id[p], StatusNotFound, TextBody("Student not found"))
       ELSE Reply(p, "Summary", id[p], StatusOK, SummaryBody(SummaryOf(student[p])))
    /\ UNCHANGED <<students, nextID, started>>

\* ------------------------------------------------- history of a step
\* one more occurrence of x in the bag b
BagAdd(b, x) ==
    [y \in DOMAIN b \cup {x} |->
        (IF y \in DOMAIN b THEN b[y] ELSE 0) + (IF y = x THEN 1 ELSE 0)]

\* the lines whose step begins with Lock (main.go:92,151,172) or with RLock
\* (main.go:103,120,192)
LockingLines == {"L92", "L151", "L172"}
RLockingLines == {"L103", "L120", "L192"}

\* What an observer records of a step taken by worker p.  For the store:
\* the id line 93 assigned (in order), the id a 201 carried, the id a 204 was answered
\* for, and for each id the body of the Update that wrote its entry (line
\* 159), kept until another step writes or removes that entry.  For each
\* request, from its first step to the step that answers it:
\* whether it changed the store, whether its id has been in the map at any
\* moment since it began, and whether it began after a 204 for its id.  After
\* the step that answers a request these three keep their final values until
\* the next step of any worker, and so does the store as it was when the
\* request took the lock.
Observe(p) ==
    LET answers == resp'[p].status # 0
        begins == pc[p] = "idle"
        rid == IF answers THEN resp'[p].id ELSE id'[p]
    IN
    /\ issued' = IF pc[p] = "L92" /\ pc'[p] # "L92"
                 THEN Append(issued, student'[p].ID) ELSE issued
    /\ created' = IF answers /\ resp'[p].op = "Create"
                     /\ resp'[p].status = StatusCreated
                  THEN BagAdd(created, resp'[p].body.student.ID) ELSE created
    /\ deleted' = IF answers /\ resp'[p].op = "Delete"
                     /\ resp'[p].status = StatusNoContent
                  THEN deleted \cup {rid} ELSE deleted
    /\ updated' = IF pc[p] = "L158" /\ pc'[p] # "L158"
                  THEN MapSet(updated, id[p], student[p])
                  ELSE [k \in {x \in DOMAIN updated :
                                 x \in DOMAIN students' /\ students'[x] = students[x]}
                          |-> updated[k]]
    /\ wrote' = [q \in Workers |->
                   IF q = p
                   THEN (~begins /\ wrote[p]) \/ store' # store
                   ELSE pc[q] # "idle" /\ wrote[q]]
    /\ present' = [q \in Workers |->
                     IF q = p
                     THEN \/ ~begins /\ present[p]
                          \/ begins /\ rid \in DOMAIN students
                          \/ rid \in DOMAIN students'
                     ELSE /\ pc[q] # "idle"
                          /\ present[q] \/ id[q] \in DOMAIN students']
    /\ afterDel' = [q \in Workers |->
                      IF q = p
                      THEN IF begins THEN rid \in deleted ELSE afterDel[p]
                      ELSE pc[q] # "idle" /\ afterDel[q]]
    /\ atLock' = [q \in Workers |->
                    IF q = p
                    THEN IF pc[p] \in LockingLines \cup RLockingLines
                            /\ pc'[p] # pc[p]
                         THEN [students |-> students, nextID |-> nextID]
                         ELSE IF begins THEN NoStore ELSE atLock[p]
                    ELSE IF pc[q] = "idle" THEN NoStore ELSE atLock[q]]
    /\ UNCHANGED <<harness, client>>

\* ------------------------------------------------- the service
Next ==
    \E p \in Workers :
        \/ CreateStudent_L80(p) /\ Observe(p)
        \/ CreateStudent_L92(p) /\ Observe(p)
        \/ CreateStudent_L94(p) /\ Observe(p)
        \/ CreateStudent_L95(p) /\ Observe(p)
        \/ CreateStudent_L96(p) /\ Observe(p)
        \/ GetAllStudents_L102(p) /\ Observe(p)
        \/ GetAllStudents_L103(p) /\ Observe(p)
        \/ GetAllStudents_L105(p) /\ Observe(p)
        \/ GetAllStudents_L108(p) /\ Observe(p)
        \/ GetStudent_L114(p) /\ Observe(p)
        \/ GetStudent_L120(p) /\ Observe(p)
        \/ GetStudent_L122(p) /\ Observe(p)
        \/ UpdateStudent_L133(p) /\ Observe(p)
        \/ UpdateStudent_L151(p) /\ Observe(p)
        \/ UpdateStudent_L153(p) /\ Observe(p)
        \/ UpdateStudent_L158(p) /\ Observe(p)
        \/ UpdateStudent_L160(p) /\ Observe(p)
        \/ DeleteStudent_L166(p) /\ Observe(p)
        \/ DeleteStudent_L172(p) /\ Observe(p)
        \/ DeleteStudent_L174(p) /\ Observe(p)
        \/ DeleteStudent_L179(p) /\ Observe(p)
        \/ DeleteStudent_L180(p) /\ Observe(p)
        \/ GetStudentSummary_L186(p) /\ Observe(p)
        \/ GetStudentSummary_L192(p) /\ Observe(p)
        \/ GetStudentSummary_L194(p) /\ Observe(p)

Spec == Init /\ [][Next]_vars

\* A step of the request worker p is serving: every step of a handler but
\* its first, which the client causes by sending the request.
Serve(p) ==
    /\ pc[p] # "idle"
    /\ \/ /\ op[p] = "Create"
          /\ \/ CreateStudent_L92(p) \/ CreateStudent_L94(p)
             \/ CreateStudent_L95(p) \/ CreateStudent_L96(p)
       \/ /\ op[p] = "List"
          /\ \/ GetAllStudents_L103(p) \/ GetAllStudents_L105(p)
             \/ GetAllStudents_L108(p)
       \/ /\ op[p] = "Get"
          /\ GetStudent_L120(p) \/ GetStudent_L122(p)
       \/ /\ op[p] = "Update"
          /\ \/ UpdateStudent_L151(p) \/ UpdateStudent_L153(p)
             \/ UpdateStudent_L158(p) \/ UpdateStudent_L160(p)
       \/ /\ op[p] = "Delete"
          /\ \/ DeleteStudent_L172(p) \/ DeleteStudent_L174(p)
             \/ DeleteStudent_L179(p) \/ DeleteStudent_L180(p)
       \/ /\ op[p] = "Summary"
          /\ GetStudentSummary_L192(p) \/ GetStudentSummary_L194(p)
    /\ Observe(p)

\* The Go scheduler keeps running goroutines that can run, and a goroutine
\* blocked in Lock or RLock can run again once the lock is released: while
\* some request can take a step, some request does.  Whether a client sends
\* another request is up to the client.
FairSpec == Spec /\ WF_vars(\E p \in Workers : Serve(p))

\* ------------------------------------------------- Validate on its own
\* Students to call Validate on: every combination of rule outcomes, with the
\* ages at and around both limits.
ValidateInputs ==
    { Student(i, n, a, e) :
        i \in {0, 1}, n \in {"", "Ann"},
        a \in {0 - 1, 0, 1, 20, MaxAge - 1, MaxAge, MaxAge + 1},
        e \in {"", "a@b.com"} }

ValidateInit ==
    /\ NewStudentStore
    /\ pc = [p \in Workers |-> "idle"]
    /\ op = [p \in Workers |-> "none"]
    /\ id = [p \in Workers |-> 0]
    /\ student = [p \in Workers |-> ZeroStudent]
    /\ exists = [p \in Workers |-> FALSE]
    /\ list = [p \in Workers |-> <<>>]
    /\ todo = [p \in Workers |-> {}]
    /\ resp = [p \in Workers |-> NoResponse]
    /\ started = 0
    /\ issued = <<>>
    /\ created = << >>
    /\ deleted = {}
    /\ updated = << >>
    /\ wrote = [p \in Workers |-> FALSE]
    /\ present = [p \in Workers |-> FALSE]
    /\ afterDel = [p \in Workers |-> FALSE]
    /\ atLock = [p \in Workers |-> NoStore]
    /\ vpc = "call"
    /\ vs \in ValidateInputs
    /\ vrecv = ZeroStudent
    /\ verrs = <<>>
    /\ ClientIdle

\* student.Validate(): the receiver is passed by value (main.go:48)
Validate_Call ==
    /\ vpc = "call"
    /\ vrecv' = vs
    /\ vpc' = "body"
    /\ UNCHANGED <<vs, verrs, store, mu, locals, started, history, client>>

\* main.go:49-72: the body builds and returns the slice
Validate_Return ==
    /\ vpc = "body"
    /\ verrs' = Validate(vrecv)
    /\ vpc' = "return"
    /\ UNCHANGED <<vs, vrecv, store, mu, locals, started, history, client>>

ValidateNext == Validate_Call \/ Validate_Return

ValidateSpec == ValidateInit /\ [][ValidateNext]_vars

\* ------------------------------------------------- the generation client
\* fmt.Sprintf("Generate a brief summary of this student:\\nName: %s\\nAge:
\* %d\\nEmail: %s", ...) (part_000:28-33)
PromptOf(s) ==
    "Generate a brief summary of this student:\nName: " \o s.Name
        \o "\nAge: " \o ToString(s.Age) \o "\nEmail: " \o s.Email

\* c.baseURL (part_000:10-12,23-25)
BaseURL == "http://localhost:11434"

\* A response body is the sequence of JSON values the service wrote; a value
\* is malformed text or an object given as its members in the order written.
BadValue == [wellformed |-> FALSE, members |-> <<>>]
Object(ms) == [wellformed |-> TRUE, members |-> ms]

\* what Unmarshal leaves in OllamaResponse.Response after the first n members
\* of an object: the last string given for the key "response"; a value of
\* another JSON type is skipped
RECURSIVE ResponseField(_, _)
ResponseField(ms, n) ==
    IF n = 0 THEN ""
    ELSE IF ms[n][1] = "response" /\ ms[n][2].t = "str"
    THEN ms[n][2].s
    ELSE ResponseField(ms, n - 1)

\* json.NewDecoder(resp.Body).Decode(&ollamaResp) (part_000:55-56): the
\* decoder reads the first JSON value of the body; no value or malformed text
\* is an error that leaves ollamaResp as it was; a "response" member that is
\* no string is an error reported after the other members were stored
DecodeResponse(body) ==
    IF body = <<>> \/ ~body[1].wellformed
    THEN [response |-> "", err |-> TRUE]
    ELSE LET ms == body[1].members
         IN [response |-> ResponseField(ms, Len(ms)),
             err |-> \E i \in 1..Len(ms) :
                        ms[i][1] = "response" /\ ms[i][2].t # "str"]

\* Students the client is called with.
ClientStudents ==
    { Student(1, "Ann", 20, "a@b.com"), Student(2, "X", 5, "x@x"),
      Student(0, "", 0, ""), Student(3, "Old", 151, "") }

\* Bodies the remote service may answer with: one object, a stream of
\* objects, an object without the member, an empty string, a number for the
\* member, a string and then a number for it, malformed text, nothing.
ResponseBodies ==
    { << Object(<< <<"response", JStr("Ann studies.")>> >>) >>,
      << Object(<< <<"response", JStr("Ann")>> >>),
         Object(<< <<"response", JStr(" studies.")>> >>) >>,
      << Object(<< <<"error", JStr("model not found")>> >>) >>,
      << Object(<< <<"response", JStr("")>> >>) >>,
      << Object(<< <<"response", JNum(5)>> >>) >>,
      << Object(<< <<"response", JStr("Ann")>>, <<"response", JNum(5)>> >>) >>,
      << BadValue >>,
      << >> }

\* What http.Post may return when err is nil: any status (the client does
\* not look at it) with any body.
HTTPResponses ==
    { [received |-> TRUE, status |-> st, body |-> b] :
        st \in {StatusOK, StatusNotFound}, b \in ResponseBodies }

\* return x, err (part_000:42,51,57,60)
ClientReturn(x, e) ==
    /\ gret' = [str |-> x, err |-> e]
    /\ gpc' = "return"

GenInit ==
    /\ NewStudentStore
    /\ pc = [p \in Workers |-> "idle"]
    /\ op = [p \in Workers |-> "none"]
    /\ id = [p \in Workers |-> 0]
    /\ student = [p \in Workers |-> ZeroStudent]
    /\ exists = [p \in Workers |-> FALSE]
    /\ list = [p \in Workers |-> <<>>]
    /\ todo = [p \in Workers |-> {}]
    /\ resp = [p \in Workers |-> NoResponse]
    /\ started = 0
    /\ issued = <<>>
    /\ created = << >>
    /\ deleted = {}
    /\ updated = << >>
    /\ wrote = [p \in Workers |-> FALSE]
    /\ present = [p \in Workers |-> FALSE]
    /\ afterDel = [p \in Workers |-> FALSE]
    /\ atLock = [p \in Workers |-> NoStore]
    /\ vpc = "off"
    /\ vs = ZeroStudent
    /\ vrecv = ZeroStudent
    /\ verrs = <<>>
    /\ gpc = "L28"
    /\ gstudent \in ClientStudents
    /\ gprompt = ""
    /\ gjson = [encoded |-> FALSE, model |-> "", prompt |-> ""]
    /\ gposts = <<>>
    /\ gresp = NoHTTPResponse
    /\ gret = NoReturn

\* part_000:28-38: prompt := fmt.Sprintf(...); reqBody := OllamaRequest{...}
GenerateStudentSummary_L28 ==
    /\ gpc = "L28"
    /\ gprompt' = PromptOf(gstudent)
    /\ gpc' = "L40"
    /\ UNCHANGED <<gstudent, gjson, gposts, gresp, gret>>
    /\ UNCHANGED <<store, mu, locals, started, history, harness>>

\* part_000:40-43: jsonBody, err := json.Marshal(reqBody); the error, if
\* Marshal reports one, is returned with ""
GenerateStudentSummary_L40 ==
    /\ gpc = "L40"
    /\ \E failed \in BOOLEAN :
         IF failed
         THEN /\ ClientReturn("", "marshal")
              /\ UNCHANGED gjson
         ELSE /\ gjson' = [encoded |-> TRUE, model |-> "llama2", prompt |-> gprompt]
              /\ gpc' = "L45"
              /\ UNCHANGED gret
    /\ UNCHANGED <<gstudent, gprompt, gposts, gresp>>
    /\ UNCHANGED <<store, mu, locals, started, history, harness>>

\* part_000:45-52: resp, err := http.Post(c.baseURL+"/api/generate",
\* "application/json", ...); a transport error is returned with ""
GenerateStudentSummary_L45 ==
    /\ gpc = "L45"
    /\ gposts' = Append(gposts, [url |-> BaseURL \o "/api/generate",
                                  contentType |-> "application/json",
                                  body |-> gjson])
    /\ \/ /\ ClientReturn("", "post")
          /\ UNCHANGED gresp
       \/ \E r \in HTTPResponses :
             /\ gresp' = r
             /\ gpc' = "L55"
             /\ UNCHANGED gret
    /\ UNCHANGED <<gstudent, gprompt, gjson>>
    /\ UNCHANGED <<store, mu, locals, started, history, harness>>

\* the return of line 57 giving ollamaResp.Response where the code gives ""
GenerateStudentSummary_L55_ReturnsPartial ==
    /\ gpc = "L55"
    /\ LET d == DecodeResponse(gresp.body)
       IN IF d.err
          THEN ClientReturn(d.response, "decode")
          ELSE ClientReturn(d.response, "nil")
    /\ UNCHANGED <<gstudent, gprompt, gjson, gposts, gresp>>
    /\ UNCHANGED <<store, mu, locals, started, history, harness>>

\* part_000:55-60: decode the body into ollamaResp; a decode error is
\* returned with "", else ollamaResp.Response with a nil error
GenerateStudentSummary_L55 ==
    /\ gpc = "L55"
    /\ LET d == DecodeResponse(gresp.body)
       IN IF d.err
          THEN ClientReturn("", "decode")
          ELSE ClientReturn(d.response, "nil")
    /\ UNCHANGED <<gstudent, gprompt, gjson, gposts, gresp>>
    /\ UNCHANGED <<store, mu, locals, started, history, harness>>

GenNext ==
    \/ GenerateStudentSummary_L28
    \/ GenerateStudentSummary_L40
    \/ GenerateStudentSummary_L45
    \/ GenerateStudentSummary_L55

GenSpec == GenInit /\ [][GenNext]_vars

\* =================================================================
\* Properties of the service
\* =================================================================
Answered(p) == resp[p].status # 0
WriteOps == {"Create", "Update", "Delete"}
ReadOps == {"List", "Get", "Summary"}
BagSize(b) == IF DOMAIN b = {} THEN 0
              ELSE LET RECURSIVE Sum(_)
                       Sum(S) == IF S = {} THEN 0
                                 ELSE LET x == CHOOSE y \in S : TRUE
                                      IN b[x] + Sum(S \ {x})
                   IN Sum(DOMAIN b)
AllIdle == \A p \in Workers : pc[p] = "idle"
RuleHolds(s) ==
    /\ s.Name # ""
    /\ s.Age >= 0
    /\ s.Age <= 150
    /\ s.Email # ""

\* C1: the ids Create assigns are strictly increasing in the order of
\* assignment, hence pairwise different and never assigned a second time,
\* whatever Update and Delete requests ran in between.
C1_IdsStrictlyIncreasing ==
    \A i \in 1..Len(issued) : \A j \in 1..Len(issued) :
        i < j => issued[i] < issued[j]

\* C1 witness: a Create holds a freshly assigned second id after the Delete
\* of the first id was answered 204.
C1_Witness ==
    \E p \in Workers :
        /\ pc[p] = "L94"
        /\ Len(issued) = 2
        /\ issued[1] \in deleted

\* C2: on the fresh store the k-th id assigned is k, and every 201 carries an
\* id assigned so far; requests answered 400 in between assign nothing.
C2_KthCreateGetsK ==
    /\ \A k \in 1..Len(issued) : issued[k] = k
    /\ \A p \in Workers :
         (resp[p].op = "Create" /\ resp[p].status = StatusCreated)
            => resp[p].body.student.ID \in 1..Len(issued)

\* C2 witness: the second Create is answered 201 with id 2 although three
\* requests were accepted and nothing was deleted.
C2_Witness ==
    \E p \in Workers :
        /\ resp[p].op = "Create"
        /\ resp[p].status = StatusCreated
        /\ resp[p].body.student.ID = 2
        /\ started = 3
        /\ DOMAIN students = {1, 2}

\* C3: when the only requests so far are N Creates, all answered 201, then no
\* two 201s carried the same id, the ids carried are exactly 1..N, the store
\* holds exactly the entries 1..N and nextID is N+1, under every interleaving
\* of the N handlers.
C3_ConcurrentCreates ==
    /\ \A i \in DOMAIN created : created[i] = 1
    /\ (AllIdle /\ BagSize(created) = started)
          => /\ DOMAIN created = 1..started
             /\ DOMAIN students = 1..started
             /\ nextID = started + 1

\* C3 witness: as many Creates as there are workers have all been answered.
C3_Witness ==
    /\ AllIdle
    /\ started = NumWorkers
    /\ BagSize(created) = NumWorkers

\* C4: every Student in the map satisfies the three validation rules.
C4_StoredStudentsValid ==
    \A k \in DOMAIN students : RuleHolds(students[k])

\* C4 witness: an Update whose body fails validation was rejected for an id
\* that is in the map.
C4_Witness ==
    \E p \in Workers :
        /\ resp[p].op = "Update"
        /\ resp[p].status = StatusBadRequest
        /\ resp[p].body.kind = "errors"
        /\ resp[p].id \in DOMAIN students

\* C5 as claimed: a Get, Update or Delete whose id parsed and was in the map
\* at no moment of the request is answered 404, whatever the body.
C5_NotFoundWhateverBody ==
    \A p \in Workers :
        (/\ Answered(p)
         /\ resp[p].op \in {"Get", "Update", "Delete"}
         /\ resp[p].body.text # "Invalid ID"
         /\ ~present[p])
            => resp[p].status = StatusNotFound

\* C5 amended: such a Get or Delete is answered 404, and such an Update is
\* answered 404 unless its body fails to decode or to validate, which is
\* answered 400 before the id is looked up.
C5_NotFoundOnAbsentId ==
    \A p \in Workers :
        (/\ Answered(p)
         /\ resp[p].op \in {"Get", "Update", "Delete"}
         /\ resp[p].body.text # "Invalid ID"
         /\ ~present[p])
            => \/ resp[p].status = StatusNotFound
               \/ /\ resp[p].op = "Update"
                  /\ resp[p].status = StatusBadRequest
                  /\ \/ resp[p].body.text = "Invalid request body"
                     \/ resp[p].body.kind = "errors"

\* C5 witness: an Update with a valid body is answered 404 for an absent id
\* while the map holds other entries.
C5_Witness ==
    \E p \in Workers :
        /\ resp[p].op = "Update"
        /\ resp[p].status = StatusNotFound
        /\ ~present[p]
        /\ DOMAIN students # {}

\* C6: while the entry of an id is the one an Update wrote, it holds exactly
\* the name, age and email of that Update's body under the path id, and a
\* Get of that id answers 200 with exactly that record.
C6_UpdateIsFullReplace ==
    /\ \A k \in DOMAIN updated :
         /\ k \in DOMAIN students
         /\ students[k] =
              Student(k, updated[k].Name, updated[k].Age, updated[k].Email)
    /\ \A p \in Workers :
         (resp[p].op = "Get" /\ Answered(p) /\ resp[p].id \in DOMAIN updated)
            => /\ resp[p].status = StatusOK
               /\ resp[p].body.student =
                    Student(resp[p].id, updated[resp[p].id].Name,
                            updated[resp[p].id].Age, updated[resp[p].id].Email)

\* C6 witness: a Get answers with the record of an Update whose body carried
\* another id than the path.
C6_Witness ==
    \E p \in Workers :
        /\ resp[p].op = "Get"
        /\ resp[p].status = StatusOK
        /\ resp[p].id \in DOMAIN updated
        /\ updated[resp[p].id].ID # resp[p].id
        /\ resp[p].body.student.Name = "X"

\* C7: an id whose Delete was answered 204 is never in the map again, and
\* every Get, Summary, Update with a valid body, and Delete of that id that
\* begins afterwards is answered 404.
C7_DeletedStaysGone ==
    /\ \A k \in deleted : k \notin DOMAIN students
    /\ \A p \in Workers :
         (/\ Answered(p)
          /\ afterDel[p]
          /\ resp[p].op \in {"Get", "Summary", "Update", "Delete"})
             => \/ resp[p].status = StatusNotFound
                \/ resp[p].op = "Update" /\ resp[p].status = StatusBadRequest

\* C7 witness: an Update with a valid body, begun after the 204, is answered
\* 404.
C7_Witness ==
    \E p \in Workers :
        /\ afterDel[p]
        /\ resp[p].op = "Update"
        /\ resp[p].status = StatusNotFound

\* C8: a Create, Update or Delete answered 400 or 404 changed neither the map
\* nor nextID in any of its steps.
C8_FailureChangesNothing ==
    \A p \in Workers :
        (/\ resp[p].op \in WriteOps
         /\ resp[p].status \in {StatusBadRequest, StatusNotFound})
            => ~wrote[p]

\* C8 witness: a Create is answered 400 on a store that already holds an
\* entry.
C8_Witness ==
    \E p \in Workers :
        /\ resp[p].op = "Create"
        /\ resp[p].status = StatusBadRequest
        /\ DOMAIN students # {}
        /\ nextID > InitialNextID

\* C9: a List, Get or Summary request changes neither the map nor nextID in
\* any of its steps, whatever it answers.
C9_ReadsChangeNothing ==
    \A p \in Workers :
        (op[p] \in ReadOps \/ resp[p].op \in ReadOps) => ~wrote[p]

\* C9 witness: a Summary is answered 404 while the map holds entries.
C9_Witness ==
    \E p \in Workers :
        /\ resp[p].op = "Summary"
        /\ resp[p].status = StatusNotFound
        /\ DOMAIN students # {}

\* the fields Validate has to report for s, in the order of the checks
ViolatedFields(s) ==
    LET Violated(f) ==
            \/ f = "name" /\ s.Name = ""
            \/ f = "age" /\ (s.Age < 0 \/ s.Age > 150)
            \/ f = "email" /\ s.Email = ""
    IN SelectSeq(<<"name", "age", "email">>, Violated)

\* C10: Validate returns one error per violated rule and none for a rule
\* that holds, in the order name, age, email; the result is empty exactly
\* for a Student with a name, an age in 0..150 and an email; the caller's
\* Student and the store are as they were.
C10_ValidateExact ==
    vpc = "return" =>
        /\ [i \in 1..Len(verrs) |-> verrs[i].Field] = ViolatedFields(vs)
        /\ (verrs = <<>>) <=> RuleHolds(vs)
        /\ vrecv = vs
        /\ students = << >>
        /\ nextID = InitialNextID

\* C10 witness: Validate returned no error for a Student of age 150.
C10_Witness ==
    /\ vpc = "return"
    /\ vs.Age = 150
    /\ verrs = <<>>

\* =================================================================
\* Lock discipline
\* =================================================================
\* the lines a handler executes between Lock and Unlock (main.go:93-96,
\* 152-160, 173-180) and between RLock and RUnlock (main.go:104-108, 121-122,
\* 193-194), the releasing call included
ExclusiveLines == {"L94", "L95", "L96", "L153", "L158", "L160",
                   "L174", "L179", "L180"}
SharedLines == {"L105", "L108", "L122", "L194"}

InExclusive == {p \in Workers : pc[p] \in ExclusiveLines}
InShared == {p \in Workers : pc[p] \in SharedLines}

\* who is inside a hold and what the mutex says agree, one writer excludes
\* every other holder
C11_Exclusion ==
    /\ Cardinality(InExclusive) <= 1
    /\ InExclusive # {} => InShared = {}
    /\ \A p \in Workers : p \in InExclusive <=> mu.writer = p
    /\ \A p \in Workers : p \in InShared <=> p \in mu.readers

\* a step that writes the store is a step of the writer; a step that reads
\* the map is a step of a holder
C11_AccessUnderLock ==
    /\ store' # store =>
          \E p \in Workers :
              /\ mu.writer = p
              /\ mu'.writer = p
              /\ pc'[p] # pc[p]
              /\ op[p] \in WriteOps
              /\ \A q \in Workers \ {p} : pc'[q] = pc[q] /\ q \notin InShared
    /\ \A p \in Workers :
          /\ (pc[p] \in LockingLines /\ pc'[p] # pc[p]) => mu'.writer = p
          /\ (pc[p] \in RLockingLines /\ pc'[p] # pc[p]) => p \in mu'.readers
          /\ list'[p] # list[p] => p \in mu.readers \/ pc'[p] = "idle"

\* C11: at most one request is inside an exclusive hold and then none is
\* inside a shared hold; every step that changes the map or nextID is taken by
\* the Create, Update or Delete request that holds the exclusive lock before
\* and after the step; every step that reads the map is taken by a request
\* that holds the lock in the mode its handler takes.
C11_LockDiscipline == [](C11_Exclusion) /\ [][C11_AccessUnderLock]_vars

\* C11 witness: one request is about to write the map under the exclusive
\* lock while another waits for the shared lock to read the same map.
C11_Witness ==
    \E p \in Workers : \E q \in Workers :
        /\ pc[p] = "L158"
        /\ mu.writer = p
        /\ pc[q] \in RLockingLines

\* =================================================================
\* List
\* =================================================================
\* the sequence l holds every entry of the map m exactly once and nothing
\* else
IsListingOf(l, m) ==
    /\ Len(l) = Cardinality(DOMAIN m)
    /\ \A k \in DOMAIN m : Cardinality({i \in 1..Len(l) : l[i] = m[k]}) = 1
    /\ \A i \in 1..Len(l) : \E k \in DOMAIN m : l[i] = m[k]

\* C12: every List is answered 200 with an array that holds, exactly once
\* each and whole, the entries the map had at one moment of the request, the
\* moment it took the shared lock, whatever Create, Update and Delete
\* requests ran beside it; for an empty map that array is empty.
C12_ListIsSnapshot ==
    \A p \in Workers :
        (Answered(p) /\ resp[p].op = "List")
            => /\ resp[p].status = StatusOK
               /\ resp[p].body.kind = "students"
               /\ IsListingOf(resp[p].body.students, atLock[p].students)
               /\ atLock[p].students = << >> => resp[p].body.students = <<>>

\* C12 witness: a List answers with an entry while a Delete, accepted
\* meanwhile, waits for the exclusive lock.
C12_Witness ==
    \E p \in Workers : \E q \in Workers :
        /\ resp[p].op = "List"
        /\ Len(resp[p].body.students) = 1
        /\ op[q] = "Delete"
        /\ pc[q] = "L172"
        /\ id[q] \in DOMAIN students

\* =================================================================
\* Create and the id of the body
\* =================================================================
\* C13: the Student a Create answers 201 with has the id nextID had when that
\* Create took the exclusive lock, whatever id the body carried; that id was
\* not a key of the map then, the map holds exactly the returned Student
\* under it, and every entry the map had then is as it was.
C13_CreateIgnoresBodyId ==
    \A p \in Workers :
        (resp[p].op = "Create" /\ resp[p].status = StatusCreated)
            => LET s == resp[p].body.student
                   before == atLock[p]
               IN /\ s.ID = before.nextID
                  /\ s.ID \notin DOMAIN before.students
                  /\ s.ID \in DOMAIN students
                  /\ students[s.ID] = s
                  /\ \A k \in DOMAIN before.students :
                       k \in DOMAIN students /\ students[k] = before.students[k]

\* C13 witness: a Create whose body carried id 2, the key of an entry of the
\* map, is answered 201 with id 3 and entry 2 is still there.
C13_Witness ==
    \E p \in Workers :
        /\ resp[p].op = "Create"
        /\ resp[p].status = StatusCreated
        /\ resp[p].body.student.Name = "X"
        /\ resp[p].body.student.ID = 3
        /\ 2 \in DOMAIN students
        /\ students[2].Name = "Ann"

\* =================================================================
\* Summary
\* =================================================================
\* the text "Student {name} is {age} years old with email {email}."
SummaryText(n, a, e) ==
    "Student " \o n \o " is " \o ToString(a) \o " years old with email "
        \o e \o "."

\* C14: a Summary whose id parsed is answered 200 exactly when the id was a
\* key of the map when the request read it, and then with the text built
\* from the name, age and email of the record stored under the id at that
\* moment: the values of the last Update of that id if there was one, and
\* "Student Ann is 20 years old with email a@b.com." for the record
\* {1, Ann, 20, a@b.com}.
C14_SummaryOfStoredRecord ==
    \A p \in Workers :
        (Answered(p) /\ resp[p].op = "Summary" /\ resp[p].body.text # "Invalid ID")
            => LET i == resp[p].id
                   m == atLock[p].students
               IN /\ resp[p].status = StatusOK <=> i \in DOMAIN m
                  /\ resp[p].status = StatusOK =>
                       /\ resp[p].body.kind = "summary"
                       /\ resp[p].body.text =
                            SummaryText(m[i].Name, m[i].Age, m[i].Email)
                       /\ i \in DOMAIN updated =>
                            resp[p].body.text =
                              SummaryText(updated[i].Name, updated[i].Age,
                                          updated[i].Email)
                       /\ m[i] = Student(1, "Ann", 20, "a@b.com") =>
                            resp[p].body.text =
                              "Student Ann is 20 years old with email a@b.com."

\* C14 witness: the Summary of an id reports the values an Update gave it.
C14_Witness ==
    \E p \in Workers :
        /\ resp[p].op = "Summary"
        /\ resp[p].status = StatusOK
        /\ resp[p].id \in DOMAIN updated
        /\ resp[p].body.text = "Student X is 5 years old with email x@x."

\* =================================================================
\* Termination
\* =================================================================
\* the mutex is held in no mode that no request is inside
C15_LockFreeOutside ==
    /\ InExclusive = {} => mu.writer = NoWorker
    /\ InShared = {} => mu.readers = {}
    /\ AllIdle => mu = [writer |-> NoWorker, readers |-> {}]

\* C15: the lock is held in a mode only while some request is between taking
\* and releasing it in that mode, and is free when no request is being
\* served; under fair scheduling of the requests being served every request
\* comes to its end, whatever the other requests do: the requests accepted
\* so far, however many run at once, are all answered again and again.
C15_EveryRequestEnds ==
    /\ [](C15_LockFreeOutside)
    /\ []<>AllIdle

\* C15 witness: an Update has returned 404, the lock is free, and a request
\* that waited for the exclusive lock meanwhile can take it.
C15_Witness ==
    \E p \in Workers : \E q \in Workers :
        /\ resp[p].op = "Update"
        /\ resp[p].status = StatusNotFound
        /\ mu = [writer |-> NoWorker, readers |-> {}]
        /\ pc[q] \in LockingLines

\* =================================================================
\* Update beside Delete
\* =================================================================
\* what an answered Update found and left, against the store as it was when
\* the Update took the lock
C16_UpdateAnswer ==
    \A p \in Workers :
        (resp[p].op = "Update" /\ resp[p].status \in {StatusOK, StatusNotFound})
            => LET before == atLock[p]
               IN /\ DOMAIN students = DOMAIN before.students
                  /\ nextID = before.nextID
                  /\ resp[p].status = StatusOK <=> resp[p].id \in DOMAIN students
                  /\ resp[p].status = StatusOK =>
                       students[resp[p].id] = resp[p].body.student

\* what one step may do to the keys and to nextID
C16_UpdateStep ==
    \A p \in Workers :
        /\ (op[p] = "Update" /\ pc'[p] # pc[p])
              => /\ DOMAIN students' = DOMAIN students
                 /\ nextID' = nextID
        /\ (pc'[p] # pc[p] /\ DOMAIN students' \ DOMAIN students # {})
              => /\ op[p] = "Create"
                 /\ DOMAIN students' \cap deleted = {}

\* C16: no step of an Update request changes the set of keys or nextID, and a
\* key is added only by a step of a Create, never one whose Delete was
\* answered 204; an Update is answered 200 exactly when its id was a key
\* while it held the exclusive lock, the entry then being the one it
\* returns, and 404 when the id was no key, as after a Delete that took the
\* lock first.
C16_UpdateKeepsKeys == [](C16_UpdateAnswer) /\ [][C16_UpdateStep]_vars

\* C16 witness: an Update accepted while its id was in the map is answered
\* 404 because a Delete of the same id took the lock first.
C16_Witness ==
    \E p \in Workers :
        /\ resp[p].op = "Update"
        /\ resp[p].status = StatusNotFound
        /\ resp[p].id \in deleted
        /\ ~afterDel[p]
        /\ present[p]

\* =================================================================
\* The store
\* =================================================================
\* every Student is stored under its own id, a key from 1 up to nextID - 1
C17_KeysWellFormed ==
    /\ \A k \in DOMAIN students : students[k].ID = k /\ 1 <= k /\ k < nextID
    /\ nextID >= 1

\* the Create requests that have incremented nextID (line 94) and have not
\* returned yet
CreatesInFlight == {p \in Workers : op[p] = "Create" /\ pc[p] \in {"L95", "L96"}}

C17_CounterBetweenCreates ==
    /\ C17_KeysWellFormed
    /\ nextID - 1 = BagSize(created) + Cardinality(CreatesInFlight)
    /\ Cardinality(CreatesInFlight) <= 1
    /\ \A p \in CreatesInFlight : mu.writer = p

SameBut(m, n, k) ==
    /\ DOMAIN m \ {k} = DOMAIN n \ {k}
    /\ \A j \in DOMAIN m \ {k} : m[j] = n[j]

\* C18: between the moment a request took the exclusive lock and its answer,
\* a Delete answered 204 removed the entry of its id and changed no other
\* entry and not nextID; a Create answered 201 added the entry of its new id,
\* changed no other entry and raised nextID by exactly 1; an Update answered
\* 200 changed the entry of its id alone, and not nextID.
C18_WritesChangeOwnEntryOnly ==
    \A p \in Workers :
        LET before == atLock[p]
            i == resp[p].id
        IN /\ (resp[p].op = "Delete" /\ resp[p].status = StatusNoContent)
                => /\ i \in DOMAIN before.students
                   /\ i \notin DOMAIN students
                   /\ SameBut(before.students, students, i)
                   /\ nextID = before.nextID
           /\ (resp[p].op = "Create" /\ resp[p].status = StatusCreated)
                => /\ resp[p].body.student.ID \in DOMAIN students
                   /\ SameBut(before.students, students, resp[p].body.student.ID)
                   /\ nextID = before.nextID + 1
           /\ (resp[p].op = "Update" /\ resp[p].status = StatusOK)
                => /\ i \in DOMAIN before.students
                   /\ i \in DOMAIN students
                   /\ SameBut(before.students, students, i)
                   /\ nextID = before.nextID

\* C18 witness: a Delete is answered 204 and the other entry of the map is
\* still there.
C18_Witness ==
    \E p \in Workers :
        /\ resp[p].op = "Delete"
        /\ resp[p].status = StatusNoContent
        /\ DOMAIN atLock[p].students = {1, 2}
        /\ Cardinality(DOMAIN students) = 1

\* =================================================================
\* The generation client
\* =================================================================
\* the "response" member of the first JSON value of a body is a string, or
\* that value is an object without the member
Decodable(body) ==
    /\ body # <<>>
    /\ body[1].wellformed
    /\ \A i \in 1..Len(body[1].members) :
         body[1].members[i][1] = "response" => body[1].members[i][2].t = "str"

====
